---- MODULE Spec2Model ----
(***************************************************************************)
(* HackEEG host client (src/src/client/mod.rs): the session's recorded     *)
(* mode, the mode state machine ensure_mode and the command/response       *)
(* engine (send_json_cmd, send_text_cmd, read_response, execute_json_cmd,  *)
(* noop, board_led_on/off, blink_test, jsonlines, new).                    *)
(*                                                                         *)
(* The program is single-threaded and every operation runs to completion,  *)
(* so each operation is one action.  The serial port is the environment:   *)
(* every port.write returns an error or the number of bytes it accepted,   *)
(* every read_line returns an error or a line; the action draws these      *)
(* outcomes with \E.  The state keeps the session (client, mode) and the   *)
(* observation of the last operation (call) and of the one before (prev).  *)
(***************************************************************************)
EXTENDS Integers, Sequences, FiniteSets, TLC

VARIABLES
    client,   \* "absent" before new() has returned a session, "live" after
    mode,     \* HackEEGClient.mode
    call,     \* the last operation: what it was given, wrote, read and returned
    prev,     \* summary of the operation before the last one
    wire,     \* the device and the lines it has sent (SpecWire; idle elsewhere)
    rl        \* a read_response in progress (SpecRead; idle elsewhere)

vars == <<client, mode, call, prev, wire, rl>>

----------------------------------------------------------------------------
(* Bounds *)

\* longest strict prefix (in frame units) a short port.write is drawn from
MaxShort == 0
\* largest argument of blink_test
MaxBlink == 1
\* number of response lines the device sends before it falls silent
MaxLines == 3
\* chunks the port holds unread; chunks of a line read_line counts (saturating)
MaxPending == 2
MaxChunks == 2

----------------------------------------------------------------------------
(* Data *)

\* enum Mode (modes.rs is not in src/; the variants are those ensure_mode matches)
Mode == {"Unknown", "Text", "JsonLines", "MsgPack"}

\* command names given to send_json_cmd / execute_json_cmd by callers
JsonCmds == {"nop", "sdatac"}
\* command names given to send_text_cmd by callers
TextCmds == {"jsonlines"}
\* response types execute_json_cmd is instantiated with
RespTypes == {"NoOp", "Status"}

\* Outcome of one port.write call: an io::Error, Ok(len) (the whole buffer
\* accepted), or Ok(k) with k < len (a strict prefix accepted).
WErr == [w |-> "err", n |-> 0]
WFull == [w |-> "full", n |-> 0]
WShort(k) == [w |-> "short", n |-> k]
WriteOutcomes == {WErr, WFull} \cup {WShort(k) : k \in 0..MaxShort}

\* A line handed back by read_line.  json: the text is a JSON object;
\* fields: the keys it carries; nl: it ends with a newline (FALSE at end of
\* stream, where read_line returns what it has, possibly nothing).
Lines ==
    { [json |-> TRUE,  fields |-> {"status_code", "status_text"}, nl |-> TRUE],
      [json |-> TRUE,  fields |-> {"status_code"},                nl |-> TRUE],
      [json |-> FALSE, fields |-> {},                             nl |-> TRUE],
      [json |-> FALSE, fields |-> {},                             nl |-> FALSE] }

\* Outcome of one read_line call: an io::Error or a line
IoErr == [io |-> "err"]
ReadOutcomes == {IoErr} \cup Lines

Ok(v) == [kind |-> "Ok", val |-> v]
Err(e) == [kind |-> "Err", val |-> e]
Panic == [kind |-> "Panic", val |-> "unreachable"]
IsOk(r) == r.kind = "Ok"
IsErr(r) == r.kind = "Err"

Min(a, b) == IF a <= b THEN a ELSE b

----------------------------------------------------------------------------
(* Framing *)

\* json_cmd: json!({"COMMAND": cmd, "PARAMETERS": []}).to_string(), as the
\* sequence of its tokens (serde_json writes the keys in sorted order)
json_cmd(cmd) == <<"{", "COMMAND", cmd, "PARAMETERS", "[]", "}">>

\* json_cmd_line: json_cmd(cmd) + "\r\n"
json_cmd_line(cmd) == json_cmd(cmd) \o <<"CR", "LF">>

\* send_text_cmd's buffer: cmd.to_string() then push('\n')
text_cmd_line(cmd) == <<cmd>> \o <<"LF">>

----------------------------------------------------------------------------
(* The transport *)

\* What an operation did: its result, the port.write calls it made (buffer
\* handed over, whether the write returned Ok, prefix accepted) and the
\* read_line calls it made (what each returned).
Outcome(result, writes, reads) ==
    [result |-> result, writes |-> writes, reads |-> reads]

\* port.write(buf) under outcome w: Err(io), or Ok(n) with the first n
\* units of buf accepted
port_write(buf, w) ==
    IF w = WErr
    THEN Outcome(Err("io"), <<[buf |-> buf, ok |-> FALSE, sent |-> <<>>]>>, <<>>)
    ELSE LET n == IF w = WFull THEN Len(buf) ELSE Min(w.n, Len(buf) - 1)
         IN  Outcome(Ok(n), <<[buf |-> buf, ok |-> TRUE, sent |-> SubSeq(buf, 1, n)]>>,
                     <<>>)

\* a; b with the ? missing: b runs whatever a returned
AndThen_continue(a, b) ==
    Outcome(b.result, a.writes \o b.writes, a.reads \o b.reads)

\* a; b? -- b runs only when a did not return Err (the ? operator); the
\* result is b's, the writes and reads are those of both
AndThen(a, b) ==
    IF IsErr(a.result) THEN a
    ELSE Outcome(b.result, a.writes \o b.writes, a.reads \o b.reads)

\* From<io::Error> and From<serde_json::Error> for ClientError (err.rs)
ClientError_from(e) ==
    CASE e = "io"    -> "IOError"
      [] e = "serde" -> "DeserializeError"
      [] OTHER       -> e

\* o? inside a function that returns ClientResult: an Err is converted
Q(o) == IF IsErr(o.result)
        THEN [o EXCEPT !.result = Err(ClientError_from(o.result.val))]
        ELSE o

----------------------------------------------------------------------------
(* Command/response engine *)

\* send_json_cmd: one port.write of json_cmd_line(cmd)
send_json_cmd(cmd, w) == port_write(json_cmd_line(cmd), w)

\* send_text_cmd: one port.write of cmd + "\n"
send_text_cmd(cmd, w) == port_write(text_cmd_line(cmd), w)

\* jsonlines
jsonlines(w) == send_text_cmd("jsonlines", w)

\* board_led_on: send_json_cmd("boardledon")?; Ok(())
board_led_on(w) ==
    AndThen(send_json_cmd("boardledon", w), Outcome(Ok("unit"), <<>>, <<>>))

\* board_led_off: send_json_cmd("boardledoff")?; Ok(())
board_led_off(w) ==
    AndThen(send_json_cmd("boardledoff", w), Outcome(Ok("unit"), <<>>, <<>>))

\* blink_test: for i in 0..num { board_led_on()?; board_led_off()?; } Ok(())
\* (the loop from iteration i on; ws[2i+1], ws[2i+2] are its write outcomes)
RECURSIVE blink_loop(_, _, _)
blink_loop(i, num, ws) ==
    IF i >= num
    THEN Outcome(Ok("unit"), <<>>, <<>>)
    ELSE AndThen(AndThen(board_led_on(ws[2 * i + 1]), board_led_off(ws[2 * i + 2])),
                 blink_loop(i + 1, num, ws))

blink_test(num, ws) == blink_loop(0, num, ws)

\* read_response: a fresh BufReader, one read_line
read_response(rd) ==
    IF rd = IoErr
    THEN Outcome(Err("io"), <<>>, <<rd>>)
    ELSE Outcome(Ok(rd), <<>>, <<rd>>)

\* fields a response type needs (NoOp: the pattern in noop; Status: commands.rs)
Required(T) ==
    CASE T = "NoOp"   -> {"status_code", "status_text"}
      [] T = "Status" -> {"status_code", "status_text"}

\* serde_json::from_str::<T>(&resp)
from_str(T, line) ==
    IF line.json /\ Required(T) \subseteq line.fields
    THEN Ok([type |-> T])
    ELSE Err("serde")

\* execute_json_cmd with from_str(&resp).unwrap_or_default() in place of ?
execute_json_cmd_defaulting(cmd, T, w, rd) ==
    LET s == Q(send_json_cmd(cmd, w)) IN
    IF IsErr(s.result) THEN s
    ELSE LET r == Q(read_response(rd)) IN
         IF IsErr(r.result) THEN Outcome(r.result, s.writes, r.reads)
         ELSE Outcome(Ok([type |-> T]), s.writes, r.reads)

\* execute_json_cmd::<T>: send_json_cmd(cmd)?; read_response()?; from_str(&resp)?
execute_json_cmd(cmd, T, w, rd) ==
    LET s == Q(send_json_cmd(cmd, w)) IN
    IF IsErr(s.result) THEN s
    ELSE LET r == Q(read_response(rd)) IN
         IF IsErr(r.result) THEN Outcome(r.result, s.writes, r.reads)
         ELSE Q(Outcome(from_str(T, r.result.val), s.writes, r.reads))

\* noop without the DeserializeError arm: every Err(e) => Err(e)
noop_strict(w, rd) ==
    LET e == execute_json_cmd("nop", "NoOp", w, rd) IN
    IF IsOk(e.result) THEN [e EXCEPT !.result = Ok(TRUE)] ELSE e

\* noop with a catch-all arm: every Err(_) => Ok(false)
noop_swallow(w, rd) ==
    LET e == execute_json_cmd("nop", "NoOp", w, rd) IN
    IF IsOk(e.result) THEN [e EXCEPT !.result = Ok(TRUE)]
    ELSE [e EXCEPT !.result = Ok(FALSE)]

\* noop: Ok(NoOp) => Ok(true), Err(DeserializeError) => Ok(false), Err(e) => Err(e)
noop(w, rd) ==
    LET e == execute_json_cmd("nop", "NoOp", w, rd) IN
    CASE IsOk(e.result)                      -> [e EXCEPT !.result = Ok(TRUE)]
      [] e.result = Err("DeserializeError")  -> [e EXCEPT !.result = Ok(FALSE)]
      [] OTHER                               -> e

----------------------------------------------------------------------------
(* Mode state machine *)

\* unreachable!()
Unreachable == Outcome(Panic, <<>>, <<>>)

\* the match with the two commands of MsgPack -> Text in the other order
transition_swapped(cur, desired, ws, rd) ==
    CASE desired = "Text" ->
           ( CASE cur = "JsonLines" ->
                    Q(send_text_cmd("jsonlines", ws[1]))
               [] cur = "MsgPack" ->
                    AndThen(Q(send_text_cmd("messagepack", ws[1])),
                            Q(send_text_cmd("jsonlines", ws[2])))
               [] OTHER -> Unreachable )
      [] desired = "JsonLines" ->
           ( CASE cur = "MsgPack" ->
                    Q(send_text_cmd("messagepack", ws[1]))
               [] cur \in {"Text", "Unknown"} ->
                    AndThen(AndThen(AndThen(Q(send_json_cmd("stop", ws[1])),
                                            Q(send_json_cmd("sdatac", ws[2]))),
                                    Q(send_text_cmd("jsonlines", ws[3]))),
                            Q(noop(ws[4], rd)))
               [] OTHER -> Unreachable )
      [] desired = "MsgPack" ->
           ( CASE cur = "JsonLines" ->
                    Q(send_text_cmd("jsonlines", ws[1]))
               [] cur = "Text" ->
                    Q(send_json_cmd("text", ws[1]))
               [] OTHER -> Unreachable )
      [] desired = "Unknown" -> Unreachable

\* the match with Mode::Unknown grouped with Mode::JsonLines as a source of
\* Text and of MsgPack
transition_lenient(cur, desired, ws, rd) ==
    CASE desired = "Text" ->
           ( CASE cur \in {"JsonLines", "Unknown"} ->
                    Q(send_text_cmd("jsonlines", ws[1]))
               [] cur = "MsgPack" ->
                    AndThen(Q(send_text_cmd("jsonlines", ws[1])),
                            Q(send_text_cmd("messagepack", ws[2])))
               [] OTHER -> Unreachable )
      [] desired = "JsonLines" ->
           ( CASE cur = "MsgPack" ->
                    Q(send_text_cmd("messagepack", ws[1]))
               [] cur \in {"Text", "Unknown"} ->
                    AndThen(AndThen(AndThen(Q(send_json_cmd("stop", ws[1])),
                                            Q(send_json_cmd("sdatac", ws[2]))),
                                    Q(send_text_cmd("jsonlines", ws[3]))),
                            Q(noop(ws[4], rd)))
               [] OTHER -> Unreachable )
      [] desired = "MsgPack" ->
           ( CASE cur \in {"JsonLines", "Unknown"} ->
                    Q(send_text_cmd("jsonlines", ws[1]))
               [] cur = "Text" ->
                    Q(send_json_cmd("text", ws[1]))
               [] OTHER -> Unreachable )
      [] desired = "Unknown" -> Unreachable

\* the match with an empty arm for Mode::Unknown in place of unreachable!()
transition_to_unknown(cur, desired, ws, rd) ==
    CASE desired = "Text" ->
           ( CASE cur = "JsonLines" ->
                    Q(send_text_cmd("jsonlines", ws[1]))
               [] cur = "MsgPack" ->
                    AndThen(Q(send_text_cmd("jsonlines", ws[1])),
                            Q(send_text_cmd("messagepack", ws[2])))
               [] OTHER -> Unreachable )
      [] desired = "JsonLines" ->
           ( CASE cur = "MsgPack" ->
                    Q(send_text_cmd("messagepack", ws[1]))
               [] cur \in {"Text", "Unknown"} ->
                    AndThen(AndThen(AndThen(Q(send_json_cmd("stop", ws[1])),
                                            Q(send_json_cmd("sdatac", ws[2]))),
                                    Q(send_text_cmd("jsonlines", ws[3]))),
                            Q(noop(ws[4], rd)))
               [] OTHER -> Unreachable )
      [] desired = "MsgPack" ->
           ( CASE cur = "JsonLines" ->
                    Q(send_text_cmd("jsonlines", ws[1]))
               [] cur = "Text" ->
                    Q(send_json_cmd("text", ws[1]))
               [] OTHER -> Unreachable )
      [] desired = "Unknown" -> Outcome(Ok(0), <<>>, <<>>)

\* ensure_mode's match desired_mode { ... match self.mode { ... } }: the
\* commands issued for (cur, desired), cur # desired
transition(cur, desired, ws, rd) ==
    CASE desired = "Text" ->
           ( CASE cur = "JsonLines" ->
                    Q(send_text_cmd("jsonlines", ws[1]))
               [] cur = "MsgPack" ->
                    AndThen(Q(send_text_cmd("jsonlines", ws[1])),
                            Q(send_text_cmd("messagepack", ws[2])))
               [] OTHER -> Unreachable )
      [] desired = "JsonLines" ->
           ( CASE cur = "MsgPack" ->
                    Q(send_text_cmd("messagepack", ws[1]))
               [] cur \in {"Text", "Unknown"} ->
                    AndThen(AndThen(AndThen(Q(send_json_cmd("stop", ws[1])),
                                            Q(send_json_cmd("sdatac", ws[2]))),
                                    Q(send_text_cmd("jsonlines", ws[3]))),
                            Q(noop(ws[4], rd)))
               [] OTHER -> Unreachable )
      [] desired = "MsgPack" ->
           ( CASE cur = "JsonLines" ->
                    Q(send_text_cmd("jsonlines", ws[1]))
               [] cur = "Text" ->
                    Q(send_json_cmd("text", ws[1]))
               [] OTHER -> Unreachable )
      [] desired = "Unknown" -> Unreachable

\* ensure_mode without line 178: the transition is made, the mode not recorded
ensure_mode_unrecorded(cur, desired, ws, rd) ==
    IF cur # desired
    THEN LET t == transition(cur, desired, ws, rd) IN
         IF t.result.kind = "Ok"
         THEN [out |-> [t EXCEPT !.result = Ok(TRUE)], mode |-> cur]
         ELSE [out |-> t, mode |-> cur]
    ELSE [out |-> Outcome(Ok(FALSE), <<>>, <<>>), mode |-> cur]

\* ensure_mode recording the mode before the commands are sent
ensure_mode_eager(cur, desired, ws, rd) ==
    IF cur # desired
    THEN LET t == transition(cur, desired, ws, rd) IN
         IF t.result.kind = "Ok"
         THEN [out |-> [t EXCEPT !.result = Ok(TRUE)], mode |-> desired]
         ELSE [out |-> t, mode |-> desired]
    ELSE [out |-> Outcome(Ok(FALSE), <<>>, <<>>), mode |-> cur]

\* ensure_mode without the comparison of line 136: the sequence is always sent
ensure_mode_always(cur, desired, ws, rd) ==
    LET t == IF cur = desired /\ desired # "Unknown"
             THEN Q(send_text_cmd("jsonlines", ws[1]))
             ELSE transition(cur, desired, ws, rd) IN
    IF t.result.kind = "Ok"
    THEN [out |-> [t EXCEPT !.result = Ok(TRUE)], mode |-> desired]
    ELSE [out |-> t, mode |-> cur]

\* ensure_mode: [out: what the call did and returned, mode: self.mode after]
ensure_mode(cur, desired, ws, rd) ==
    IF cur # desired
    THEN LET t == transition(cur, desired, ws, rd) IN
         IF t.result.kind = "Ok"
         THEN [out |-> [t EXCEPT !.result = Ok(TRUE)], mode |-> desired]
         ELSE [out |-> t, mode |-> cur]
    ELSE [out |-> Outcome(Ok(FALSE), <<>>, <<>>), mode |-> cur]

\* HackEEGClient::new: open the port (opened = FALSE: open_with_settings
\* failed), build the client in mode Unknown, call ensure_mode(JsonLines)
\* and drop its result, return Ok(client)
new(opened, ws, rd) ==
    IF ~opened
    THEN [out |-> Outcome(Err("open"), <<>>, <<>>), client |-> "absent",
          mode |-> "Unknown"]
    ELSE LET e == ensure_mode("Unknown", "JsonLines", ws, rd) IN
         [out |-> [e.out EXCEPT !.result = Ok("client")], client |-> "live",
          mode |-> e.mode]

----------------------------------------------------------------------------
(* Register write and status assertion (wreg and Status::assert are called *)
(* by src/src/bin/hackeeg_stream.rs; their code is not in src/ and is      *)
(* taken from spec sections 4.2 and 7)                                     *)

\* register addresses and values given to wreg
RegAddrs == {1}
RegValues == {0, 150}

\* a response line carrying a Status: status_code 0 "Ok" or 1 "Error"
StatusLines ==
    { [json |-> TRUE, fields |-> {"status_code", "status_text"}, nl |-> TRUE,
       status_code |-> s[1], status_text |-> s[2]] :
        s \in {<<0, "Ok">>, <<1, "Error">>} }

\* {"COMMAND": cmd, "PARAMETERS": [address, value]} + "\r\n"
json_cmd_line_params(cmd, params) ==
    <<"{", "COMMAND", cmd, "PARAMETERS", params, "}">> \o <<"CR", "LF">>

\* serde_json::from_str::<Status>(&resp)
from_str_status(line) ==
    IF line.json /\ Required("Status") \subseteq line.fields
    THEN Ok([status_code |-> line.status_code, status_text |-> line.status_text])
    ELSE Err("serde")

\* wreg::<Status>(address, value): write the command, read one line,
\* deserialize it; the status is handed back whatever its code
wreg(address, value, w, rd) ==
    LET s == Q(port_write(json_cmd_line_params("wreg", <<address, value>>), w)) IN
    IF IsErr(s.result) THEN s
    ELSE LET r == Q(read_response(rd)) IN
         IF IsErr(r.result) THEN Outcome(r.result, s.writes, r.reads)
         ELSE Q(Outcome(from_str_status(r.result.val), s.writes, r.reads))

\* Status::assert accepting every status
assert_status_always(status) == Ok("unit")

\* Status::assert: a non-success code becomes a command-status failure
assert_status(status) ==
    IF status.status_code = 0 THEN Ok("unit") ELSE Err("CommandStatusError")

\* the caller's chain with .assert()? left out
wreg_then_unasserted(asserted, address, value, w, rd) ==
    wreg(address, value, w, rd)

\* wreg(..)? followed, when asserted, by .assert()?
wreg_then(asserted, address, value, w, rd) ==
    LET o == wreg(address, value, w, rd) IN
    IF asserted /\ IsOk(o.result)
    THEN [o EXCEPT !.result = assert_status(o.result.val)]
    ELSE o

----------------------------------------------------------------------------
(* The environment's choices *)

\* longest run of port.write calls of one operation
MaxWrites == IF 2 * MaxBlink > 4 THEN 2 * MaxBlink ELSE 4

\* The outcomes of the port.write calls and of the read_line call of an
\* operation that makes at most n writes and r reads.  An operation stops
\* at its first failed write, so the outcomes it never asks for are fixed
\* (WFull, IoErr) instead of enumerated.
Env(n, r) ==
    { [ws |-> [i \in 1..MaxWrites |-> IF i <= n THEN ws[i] ELSE WFull], rd |-> rd] :
        <<ws, rd>> \in
          { x \in [1..n -> WriteOutcomes] \X ReadOutcomes :
              /\ \A i, j \in 1..n : (i < j /\ x[1][i] = WErr) => x[1][j] = WFull
              /\ (r = 0 \/ \E i \in 1..n : x[1][i] = WErr) => x[2] = IoErr } }

AllFull == [i \in 1..MaxWrites |-> WFull]

----------------------------------------------------------------------------
(* State machine *)

\* summary of an operation once it is the one before the last: kept for
\* ensure_mode, the only operation whose successor depends on it
NoCall == [op |-> "other", arg |-> "", result |-> Ok("unit")]

Summary(c) ==
    IF c.op = "ensure_mode"
    THEN [op |-> c.op, arg |-> c.arg, result |-> c.result]
    ELSE NoCall

\* the device when it is left out of the model
NoWire == [dev |-> "none", rx |-> <<>>, sent |-> 0, got |-> 0, ans |-> 0]

\* no read_response in progress, nothing arrived at the port
NoRead == [pc |-> "idle", line |-> 0, port |-> <<>>, ret |-> "none"]

Init ==
    /\ client = "absent"
    /\ mode = "Unknown"
    /\ call = [op |-> "none", arg |-> "", before |-> "Unknown",
               result |-> Ok("unit"), writes |-> <<>>, reads |-> <<>>]
    /\ prev = NoCall
    /\ wire = NoWire
    /\ rl = NoRead

\* the observation of an operation op(arg) that did o
ObserveCall(op, arg, o) ==
    /\ call' = [op |-> op, arg |-> arg, before |-> mode, result |-> o.result,
                writes |-> o.writes, reads |-> o.reads]
    /\ prev' = Summary(call)

\* the same where the device is left out: the port's outcomes are drawn freely
Observe(op, arg, o) ==
    /\ ObserveCall(op, arg, o)
    /\ UNCHANGED <<wire, rl>>

call_new ==
    /\ client = "absent"
    /\ \E opened \in BOOLEAN, env \in Env(4, 1) :
         LET n == new(opened, env.ws, env.rd) IN
         /\ client' = n.client
         /\ mode' = n.mode
         /\ Observe("new", "", n.out)

call_ensure_mode(desired) ==
    /\ client = "live"
    /\ LET full == ensure_mode(mode, desired, AllFull, IoErr).out IN
       \E env \in Env(Len(full.writes), Len(full.reads)) :
         LET e == ensure_mode(mode, desired, env.ws, env.rd) IN
         /\ mode' = e.mode
         /\ Observe("ensure_mode", desired, e.out)
         /\ UNCHANGED client

\* jsonlines taking &mut self and recording the mode it asks the device for
call_jsonlines_recording ==
    /\ client = "live"
    /\ \E env \in Env(1, 0) :
         LET o == jsonlines(env.ws[1]) IN
         /\ Observe("jsonlines", "", o)
         /\ mode' = IF IsOk(o.result) THEN "JsonLines" ELSE mode
    /\ UNCHANGED client

call_jsonlines ==
    /\ client = "live"
    /\ \E env \in Env(1, 0) : Observe("jsonlines", "", jsonlines(env.ws[1]))
    /\ UNCHANGED <<client, mode>>

call_blink_test(num) ==
    /\ client = "live"
    /\ \E env \in Env(2 * num, 0) :
         Observe("blink_test", num, blink_test(num, env.ws))
    /\ UNCHANGED <<client, mode>>

call_noop ==
    /\ client = "live"
    /\ \E env \in Env(1, 1) : Observe("noop", "", noop(env.ws[1], env.rd))
    /\ UNCHANGED <<client, mode>>

call_board_led_on ==
    /\ client = "live"
    /\ \E env \in Env(1, 0) : Observe("board_led_on", "", board_led_on(env.ws[1]))
    /\ UNCHANGED <<client, mode>>

call_board_led_off ==
    /\ client = "live"
    /\ \E env \in Env(1, 0) : Observe("board_led_off", "", board_led_off(env.ws[1]))
    /\ UNCHANGED <<client, mode>>

call_send_json_cmd(cmd) ==
    /\ client = "live"
    /\ \E env \in Env(1, 0) :
         Observe("send_json_cmd", cmd, send_json_cmd(cmd, env.ws[1]))
    /\ UNCHANGED <<client, mode>>

call_send_text_cmd(cmd) ==
    /\ client = "live"
    /\ \E env \in Env(1, 0) :
         Observe("send_text_cmd", cmd, send_text_cmd(cmd, env.ws[1]))
    /\ UNCHANGED <<client, mode>>

call_read_response ==
    /\ client = "live"
    /\ \E env \in Env(0, 1) : Observe("read_response", "", read_response(env.rd))
    /\ UNCHANGED <<client, mode>>

call_execute_json_cmd(cmd, T) ==
    /\ client = "live"
    /\ \E env \in Env(1, 1) :
         Observe("execute_json_cmd", <<cmd, T>>,
                 execute_json_cmd(cmd, T, env.ws[1], env.rd))
    /\ UNCHANGED <<client, mode>>

call_wreg(asserted, address, value) ==
    /\ client = "live"
    /\ \E ws \in {AllFull, [AllFull EXCEPT ![1] = WErr]},
          rd \in {IoErr} \cup StatusLines
                      \cup {l \in Lines : ~IsOk(from_str("Status", l))} :
         Observe("wreg", <<asserted, address, value>>,
                 wreg_then(asserted, address, value, ws[1], rd))
    /\ UNCHANGED <<client, mode>>

Next ==
    \/ call_new
    \/ \E desired \in Mode : call_ensure_mode(desired)
    \/ call_jsonlines
    \/ \E num \in 0..MaxBlink : call_blink_test(num)
    \/ call_noop
    \/ call_board_led_on
    \/ call_board_led_off
    \/ \E cmd \in JsonCmds : call_send_json_cmd(cmd)
    \/ \E cmd \in TextCmds : call_send_text_cmd(cmd)
    \/ call_read_response
    \/ \E cmd \in JsonCmds, T \in RespTypes : call_execute_json_cmd(cmd, T)

Spec == Init /\ [][Next]_vars

\* the session and its register writes
NextRegister ==
    \/ call_new
    \/ \E asserted \in BOOLEAN, address \in RegAddrs, value \in RegValues :
          call_wreg(asserted, address, value)

SpecRegister == Init /\ [][NextRegister]_vars

----------------------------------------------------------------------------
(* The device on the wire.  The firmware is not part of the repository:    *)
(* the device is the one the spec assumes.  It has one encoding; when one  *)
(* call delivers the bootstrap commands of a row of the table of section   *)
(* 4.1 whose source is its encoding, it takes the row's target; while in   *)
(* JsonLines it answers every JSON command with one response line.  Lines  *)
(* are numbered in the order the device sends them.                        *)

\* the encodings a device can be in
DevModes == {"Text", "JsonLines", "MsgPack"}

\* the rows of the table: the bootstrap commands of (source, target), the
\* closing no-op probe left out; Unknown as a source stands for any encoding
DeviceRows ==
    [ p \in { <<"JsonLines", "Text">>, <<"MsgPack", "Text">>,
              <<"MsgPack", "JsonLines">>, <<"Text", "JsonLines">>,
              <<"Unknown", "JsonLines">>, <<"JsonLines", "MsgPack">>,
              <<"Text", "MsgPack">> } |->
        CASE p = <<"JsonLines", "Text">>    -> <<text_cmd_line("jsonlines")>>
          [] p = <<"MsgPack", "Text">>      -> <<text_cmd_line("jsonlines"),
                                                 text_cmd_line("messagepack")>>
          [] p = <<"MsgPack", "JsonLines">> -> <<text_cmd_line("messagepack")>>
          [] p[2] = "JsonLines"             -> <<json_cmd_line("stop"),
                                                 json_cmd_line("sdatac"),
                                                 text_cmd_line("jsonlines")>>
          [] p = <<"JsonLines", "MsgPack">> -> <<text_cmd_line("jsonlines")>>
          [] p = <<"Text", "MsgPack">>      -> <<json_cmd_line("text")>> ]

IsPrefix(a, b) == Len(a) <= Len(b) /\ SubSeq(b, 1, Len(a)) = a

\* the frames of a call that reached the device whole
Delivered(writes) ==
    LET whole == {i \in 1..Len(writes) : writes[i].ok /\ writes[i].sent = writes[i].buf}
        RECURSIVE pick(_)
        pick(i) == IF i > Len(writes) THEN <<>>
                   ELSE (IF i \in whole THEN <<writes[i].buf>> ELSE <<>>) \o pick(i + 1)
    IN  pick(1)

\* the rows the delivered frames complete from encoding dev; "none" when no
\* row applies and the device keeps its encoding
RowChoices(dev, frames) ==
    LET rows == {p \in DOMAIN DeviceRows :
                    p[1] \in {dev, "Unknown"} /\ IsPrefix(DeviceRows[p], frames)}
    IN  IF rows = {} THEN {<<"none", dev>>} ELSE rows

\* the device taking the frames one by one: [dev: its encoding after the
\* first i frames, n: the response lines it has sent for them]
RECURSIVE DeviceRun(_, _, _, _)
DeviceRun(dev, frames, row, i) ==
    IF i = 0 THEN [dev |-> dev, n |-> 0]
    ELSE LET before == DeviceRun(dev, frames, row, i - 1)
             answered == before.dev = "JsonLines" /\ frames[i][1] = "{"
             switched == row[1] # "none" /\ i = Len(DeviceRows[row])
         IN  [dev |-> IF switched THEN row[2] ELSE before.dev,
              n |-> before.n + (IF answered THEN 1 ELSE 0)]

\* response line number id as read_line hands it back
WireLine(id) ==
    [json |-> TRUE, fields |-> {"status_code", "status_text"}, nl |-> TRUE, id |-> id]

\* read_response on the pending lines rx: the fresh BufReader takes what the
\* port has (the first k lines, k >= 1), read_line hands back the first of
\* them, and the reader is dropped with the rest; a timeout when nothing is
\* pending
buf_read_line(rx, k) ==
    IF rx = <<>>
    THEN [rd |-> IoErr, rest |-> rx]
    ELSE [rd |-> WireLine(Head(rx)), rest |-> SubSeq(rx, k + 1, Len(rx))]

\* write outcomes on the wire: each write fails or delivers its whole buffer
\* (n writes, the first failure at e, e = 0 for none)
WireWrites(n) ==
    { [i \in 1..MaxWrites |-> IF i = e THEN WErr ELSE WFull] : e \in 0..n }

\* the write outcomes of a call on the wire
WireWS == WireWrites(MaxWrites)

\* the read outcomes on the wire
WireReads == {IoErr} \cup {WireLine(id) : id \in 1..MaxLines}

\* An operation against the device.  out[ws, rd] and mod[ws, rd] are what
\* the operation does and the mode it leaves under write outcomes ws and
\* read outcome rd; every operation writes before it reads, so the device
\* has taken the frames when the read begins.
WireCall(op, arg, out, mod) ==
    \E ws \in WireWrites(Len(out[AllFull, IoErr].writes)) :
      LET dry == out[ws, IoErr]
          frames == Delivered(dry.writes)
      IN  \E row \in RowChoices(wire.dev, frames) :
            LET d == DeviceRun(wire.dev, frames, row, Len(frames))
                rx2 == wire.rx \o [i \in 1..d.n |-> wire.sent + i]
            IN  /\ wire.sent + d.n <= MaxLines
                /\ \E k \in 1..(IF dry.reads = <<>> \/ rx2 = <<>> THEN 1 ELSE Len(rx2)) :
                     LET r == IF dry.reads = <<>>
                              THEN [rd |-> IoErr, rest |-> rx2]
                              ELSE buf_read_line(rx2, k)
                     IN  /\ ObserveCall(op, arg, out[ws, r.rd])
                         /\ mode' = mod[ws, r.rd]
                         /\ wire' = [dev |-> d.dev, rx |-> r.rest,
                                     sent |-> wire.sent + d.n,
                                     got |-> wire.got + (IF r.rd = IoErr THEN 0 ELSE 1),
                                     ans |-> d.n]
                         /\ UNCHANGED rl

wire_new ==
    /\ client = "absent"
    /\ LET Out == [ws \in WireWS, rd \in WireReads |->
                    new(TRUE, ws, rd).out]
           Mod == [ws \in WireWS, rd \in WireReads |->
                    new(TRUE, ws, rd).mode]
       IN  WireCall("new", "", Out, Mod)
    /\ client' = "live"

wire_ensure_mode(desired) ==
    /\ client = "live"
    /\ LET Out == [ws \in WireWS, rd \in WireReads |->
                    ensure_mode(mode, desired, ws, rd).out]
           Mod == [ws \in WireWS, rd \in WireReads |->
                    ensure_mode(mode, desired, ws, rd).mode]
       IN  WireCall("ensure_mode", desired, Out, Mod)
    /\ UNCHANGED client

wire_jsonlines ==
    /\ client = "live"
    /\ LET Out == [ws \in WireWS, rd \in WireReads |->
                    jsonlines(ws[1])]
           Mod == [ws \in WireWS, rd \in WireReads |->
                    mode]
       IN  WireCall("jsonlines", "", Out, Mod)
    /\ UNCHANGED client

wire_blink_test(num) ==
    /\ client = "live"
    /\ LET Out == [ws \in WireWS, rd \in WireReads |->
                    blink_test(num, ws)]
           Mod == [ws \in WireWS, rd \in WireReads |->
                    mode]
       IN  WireCall("blink_test", num, Out, Mod)
    /\ UNCHANGED client

wire_noop ==
    /\ client = "live"
    /\ LET Out == [ws \in WireWS, rd \in WireReads |->
                    noop(ws[1], rd)]
           Mod == [ws \in WireWS, rd \in WireReads |->
                    mode]
       IN  WireCall("noop", "", Out, Mod)
    /\ UNCHANGED client

wire_board_led_on ==
    /\ client = "live"
    /\ LET Out == [ws \in WireWS, rd \in WireReads |->
                    board_led_on(ws[1])]
           Mod == [ws \in WireWS, rd \in WireReads |->
                    mode]
       IN  WireCall("board_led_on", "", Out, Mod)
    /\ UNCHANGED client

wire_board_led_off ==
    /\ client = "live"
    /\ LET Out == [ws \in WireWS, rd \in WireReads |->
                    board_led_off(ws[1])]
           Mod == [ws \in WireWS, rd \in WireReads |->
                    mode]
       IN  WireCall("board_led_off", "", Out, Mod)
    /\ UNCHANGED client

wire_send_json_cmd(cmd) ==
    /\ client = "live"
    /\ LET Out == [ws \in WireWS, rd \in WireReads |->
                    send_json_cmd(cmd, ws[1])]
           Mod == [ws \in WireWS, rd \in WireReads |->
                    mode]
       IN  WireCall("send_json_cmd", cmd, Out, Mod)
    /\ UNCHANGED client

wire_read_response ==
    /\ client = "live"
    /\ LET Out == [ws \in WireWS, rd \in WireReads |->
                    read_response(rd)]
           Mod == [ws \in WireWS, rd \in WireReads |->
                    mode]
       IN  WireCall("read_response", "", Out, Mod)
    /\ UNCHANGED client

wire_execute_json_cmd(cmd, T) ==
    /\ client = "live"
    /\ LET Out == [ws \in WireWS, rd \in WireReads |->
                    execute_json_cmd(cmd, T, ws[1], rd)]
           Mod == [ws \in WireWS, rd \in WireReads |->
                    mode]
       IN  WireCall("execute_json_cmd", <<cmd, T>>, Out, Mod)
    /\ UNCHANGED client

\* the port is opened on a device in any encoding, with nothing pending
InitWire ==
    /\ client = "absent"
    /\ mode = "Unknown"
    /\ call = [op |-> "none", arg |-> "", before |-> "Unknown",
               result |-> Ok("unit"), writes |-> <<>>, reads |-> <<>>]
    /\ prev = NoCall
    /\ \E dev \in DevModes :
         wire = [dev |-> dev, rx |-> <<>>, sent |-> 0, got |-> 0, ans |-> 0]
    /\ rl = NoRead

NextWire ==
    \/ wire_new
    \/ \E desired \in Mode : wire_ensure_mode(desired)
    \/ wire_jsonlines
    \/ \E num \in 0..MaxBlink : wire_blink_test(num)
    \/ wire_noop
    \/ wire_board_led_on
    \/ wire_board_led_off
    \/ \E cmd \in JsonCmds : wire_send_json_cmd(cmd)
    \/ wire_read_response
    \/ \E cmd \in JsonCmds : wire_execute_json_cmd(cmd, "Status")

SpecWire == InitWire /\ [][NextWire]_vars

----------------------------------------------------------------------------
(* read_response step by step.  read_line loops over reads of the port;    *)
(* the port's timeout bounds each read, not the loop: a read that gets     *)
(* bytes without a newline appends them and reads again.  The device may   *)
(* send at any time; what it sends is a chunk of bytes without a newline,  *)
(* a chunk that ends a line, or the end of the stream.                     *)

Chunks == {"bytes", "line", "eof"}

\* the device sends a chunk; the port buffers it
device_send(c) ==
    /\ Len(rl.port) < MaxPending
    /\ rl' = [rl EXCEPT !.port = Append(@, c)]
    /\ UNCHANGED <<client, mode, call, prev, wire>>

\* read_response entered: the reader and the empty line are built
read_response_begin ==
    /\ client = "live"
    /\ rl.pc = "idle"
    /\ rl' = [rl EXCEPT !.pc = "reading", !.line = 0, !.ret = "none"]
    /\ UNCHANGED <<client, mode, call, prev, wire>>

\* read_response returns out ("Ok" with the line, "Err" with the error)
read_response_return(out, port) ==
    /\ rl' = [pc |-> "idle", line |-> 0, port |-> port, ret |-> out.result.kind]
    /\ UNCHANGED <<client, mode, call, prev, wire>>

\* one read of the port inside read_line: a timeout when nothing arrived
\* within the port's timeout, the line when the chunk ends it, the bytes so
\* far at the end of the stream, and otherwise another turn of the loop
read_line_step ==
    /\ rl.pc = "reading"
    /\ IF rl.port = <<>>
       THEN read_response_return(read_response(IoErr), <<>>)
       ELSE LET c == Head(rl.port)
                rest == Tail(rl.port)
            IN  CASE c = "bytes" ->
                       /\ rl' = [rl EXCEPT !.line = Min(@ + 1, MaxChunks), !.port = rest]
                       /\ UNCHANGED <<client, mode, call, prev, wire>>
                  [] c = "line" ->
                       \E l \in {x \in Lines : x.nl} :
                           read_response_return(read_response(l), rest)
                  [] c = "eof" ->
                       \E l \in {x \in Lines : ~x.nl} :
                           read_response_return(read_response(l), rest)

NextRead ==
    \/ call_new
    \/ \E c \in Chunks : device_send(c)
    \/ read_response_begin
    \/ read_line_step

SpecRead == Init /\ [][NextRead]_vars

\* the program keeps running: a read_response that can take a step takes it
\* (every step of read_line changes rl)
FairSpecRead == SpecRead /\ WF_rl(read_line_step)

----------------------------------------------------------------------------
(* Properties *)

\* the wire formats of spec section 6, written out
TextFrame(name) == <<name, "LF">>
JsonFrame(name) == <<"{", "COMMAND", name, "PARAMETERS", "[]", "}", "CR", "LF">>

\* the buffers an operation handed to port.write, in order
Buffers(c) == [i \in 1..Len(c.writes) |-> c.writes[i].buf]

EnsureCall == call.op = "ensure_mode"

\* C1: whenever ensure_mode(desired) returns Ok, the recorded mode is desired
\* afterwards, and the boolean returned is true exactly when the recorded
\* mode before the call differed from desired.
C1_EnsureModeContract ==
    (EnsureCall /\ IsOk(call.result)) =>
        /\ mode = call.arg
        /\ call.result.val = (call.before # call.arg)

C1_Witness ==
    /\ EnsureCall
    /\ IsOk(call.result) /\ call.result.val = TRUE
    /\ call.before = "MsgPack" /\ call.arg = "Text" /\ mode = "Text"

\* the transition table of spec section 4.1: the frames of each row
Table ==
    [ p \in { <<"JsonLines", "Text">>, <<"MsgPack", "Text">>,
              <<"MsgPack", "JsonLines">>, <<"Text", "JsonLines">>,
              <<"Unknown", "JsonLines">>, <<"JsonLines", "MsgPack">>,
              <<"Text", "MsgPack">> } |->
        CASE p = <<"JsonLines", "Text">>    -> <<TextFrame("jsonlines")>>
          [] p = <<"MsgPack", "Text">>      -> <<TextFrame("jsonlines"),
                                                 TextFrame("messagepack")>>
          [] p = <<"MsgPack", "JsonLines">> -> <<TextFrame("messagepack")>>
          [] p[2] = "JsonLines"             -> <<JsonFrame("stop"), JsonFrame("sdatac"),
                                                 TextFrame("jsonlines"),
                                                 JsonFrame("nop")>>
          [] p = <<"JsonLines", "MsgPack">> -> <<TextFrame("jsonlines")>>
          [] p = <<"Text", "MsgPack">>      -> <<JsonFrame("text")>> ]

\* the rows that end with the no-op probe and its one response read
ProbeRows == { <<"Text", "JsonLines">>, <<"Unknown", "JsonLines">> }

\* C2: a successful ensure_mode that performed a transition handed to the
\* transport exactly the frames of its row of the table, in the row's order
\* and framing and nothing else, read one response exactly when the row ends
\* with the probe, and recorded the target mode.  (Whether each write
\* delivered its whole buffer is the subject of C17.)
C2_TransitionTable ==
    (EnsureCall /\ IsOk(call.result) /\ call.result.val = TRUE) =>
        LET p == <<call.before, call.arg>> IN
        /\ p \in DOMAIN Table
        /\ Buffers(call) = Table[p]
        /\ Len(call.reads) = (IF p \in ProbeRows THEN 1 ELSE 0)
        /\ mode = call.arg

C2_Witness ==
    /\ EnsureCall
    /\ IsOk(call.result) /\ call.result.val = TRUE
    /\ call.before = "Unknown" /\ call.arg = "JsonLines" /\ mode = "JsonLines"
    /\ Len(call.writes) = 4 /\ Len(call.reads) = 1

\* C3: an ensure_mode call that ends with an error or fails fatally leaves
\* the recorded mode as it was before the call.
C3_ModeOnSuccessOnly ==
    (EnsureCall /\ ~IsOk(call.result)) => mode = call.before

\* the probe's read failed in Text -> JsonLines after four accepted writes
C3_Witness ==
    /\ EnsureCall
    /\ IsErr(call.result)
    /\ call.before = "Text" /\ call.arg = "JsonLines" /\ mode = "Text"
    /\ Len(call.writes) = 4 /\ call.reads = <<IoErr>>

\* C4: of two ensure_mode(m) calls in a row (the first returning Ok) only
\* the first may perform a transition: the second returns false, hands
\* nothing to the transport and reads nothing.
C4_Idempotent ==
    ( /\ EnsureCall
      /\ prev.op = "ensure_mode" /\ prev.arg = call.arg
      /\ IsOk(prev.result) ) =>
        /\ IsOk(call.result) /\ call.result.val = FALSE
        /\ call.writes = <<>>
        /\ call.reads = <<>>
        /\ mode = call.arg

\* true, then false
C4_Witness ==
    /\ EnsureCall
    /\ prev.op = "ensure_mode" /\ prev.arg = call.arg
    /\ IsOk(prev.result) /\ prev.result.val = TRUE
    /\ IsOk(call.result) /\ call.result.val = FALSE
    /\ call.writes = <<>>

\* a write of the operation returned an error / its read returned an error
WriteFailed(c) == \E i \in 1..Len(c.writes) : ~c.writes[i].ok
ReadFailed(c) == \E i \in 1..Len(c.reads) : c.reads[i] = IoErr

\* C5: every session new() returns successfully has recorded mode JsonLines,
\* and a transport failure during the initial negotiation makes new() return
\* an error instead of a session.
C5_NewNegotiates ==
    call.op = "new" =>
        /\ (IsOk(call.result) => mode = "JsonLines")
        /\ ((WriteFailed(call) \/ ReadFailed(call)) => IsErr(call.result))

\* the public operations that send a JSON-framed command
PublicSenders ==
    {"noop", "board_led_on", "board_led_off", "blink_test", "send_json_cmd",
     "execute_json_cmd"}

\* C6: no public operation hands a JSON-framed command to the transport while
\* the session's recorded mode is not JsonLines.
C6_JsonOnlyInJsonLines ==
    ( /\ call.op \in PublicSenders
      /\ \E i \in 1..Len(call.writes) : call.writes[i].buf[1] = "{" ) =>
        call.before = "JsonLines"

\* an ensure_mode call that failed fatally, wrote nothing, changed nothing
FailedFatally ==
    /\ call.result.kind = "Panic"
    /\ call.writes = <<>> /\ call.reads = <<>>
    /\ mode = call.before

\* C7 as stated: ensure_mode(Unknown) fails fatally for every current mode,
\* Unknown included, and so do Unknown -> Text and Unknown -> MsgPack.
C7_FatalOutsideTable_AsStated ==
    ( /\ EnsureCall
      /\ \/ call.arg = "Unknown"
         \/ call.before = "Unknown" /\ call.arg \in {"Text", "MsgPack"} ) =>
        FailedFatally

\* C7, amended: ensure_mode(Unknown) fails fatally for every current mode
\* other than Unknown, and so do Unknown -> Text and Unknown -> MsgPack, with
\* nothing written and the mode unchanged; ensure_mode(Unknown) in mode
\* Unknown is a same -> same call that returns Ok(false) and writes nothing.
C7_FatalOutsideTable ==
    /\ ( /\ EnsureCall
         /\ \/ call.arg = "Unknown" /\ call.before # "Unknown"
            \/ call.before = "Unknown" /\ call.arg \in {"Text", "MsgPack"} ) =>
           FailedFatally
    /\ (EnsureCall /\ call.arg = "Unknown" /\ call.before = "Unknown") =>
           /\ IsOk(call.result) /\ call.result.val = FALSE
           /\ call.writes = <<>> /\ call.reads = <<>>
           /\ mode = "Unknown"

C7_Witness ==
    /\ EnsureCall
    /\ call.before = "Unknown" /\ call.arg = "MsgPack"
    /\ call.result.kind = "Panic" /\ mode = "Unknown"

\* the line is a JSON object with a status code and a status text: the shape
\* of the no-op response and of Status (spec sections 3 and 6)
StatusShaped(line) ==
    line.json /\ {"status_code", "status_text"} \subseteq line.fields

\* C8: noop returns an error exactly when the command write or the response
\* read fails at the transport, Ok(true) exactly when a line was read that
\* parses as the no-op response, and Ok(false) exactly when a line was read
\* that does not.
C8_NoopClassifies ==
    call.op = "noop" =>
        LET wfail == WriteFailed(call)
            rfail == ReadFailed(call)
            read  == ~wfail /\ Len(call.reads) = 1 /\ ~rfail
        IN  /\ Len(call.writes) = 1
            /\ IsErr(call.result) <=> (wfail \/ rfail)
            /\ IsErr(call.result) => call.result.val = "IOError"
            /\ (IsOk(call.result) /\ call.result.val = TRUE)
                  <=> (read /\ StatusShaped(call.reads[1]))
            /\ (IsOk(call.result) /\ call.result.val = FALSE)
                  <=> (read /\ ~StatusShaped(call.reads[1]))

\* a line was read that does not deserialize, and noop returned Ok(false)
C8_Witness ==
    /\ call.op = "noop"
    /\ IsOk(call.result) /\ call.result.val = FALSE
    /\ Len(call.reads) = 1 /\ call.reads[1] # IoErr
    /\ call.reads[1].json /\ call.reads[1].fields = {"status_code"}

\* an ensure_mode call on a row that ends with the probe, whose first three
\* commands were handed over without an error
ProbeReached ==
    /\ EnsureCall
    /\ <<call.before, call.arg>> \in ProbeRows
    /\ Len(call.writes) = 4
    /\ \A i \in 1..3 : call.writes[i].ok

\* C9: in the Text -> JsonLines and Unknown -> JsonLines transitions, once
\* the probe is reached the call fails exactly when the probe's write or
\* read fails at the transport; a response line that does not parse as the
\* no-op response still gives Ok(true) and records JsonLines.
C9_ProbeTolerant ==
    ProbeReached =>
        /\ IsErr(call.result) <=> (~call.writes[4].ok \/ ReadFailed(call))
        /\ ( /\ call.writes[4].ok /\ Len(call.reads) = 1 /\ ~ReadFailed(call)
             /\ ~StatusShaped(call.reads[1]) ) =>
               /\ IsOk(call.result) /\ call.result.val = TRUE
               /\ mode = "JsonLines"

C9_Witness ==
    /\ ProbeReached
    /\ call.before = "Text"
    /\ call.writes[4].ok /\ Len(call.reads) = 1 /\ ~ReadFailed(call)
    /\ ~StatusShaped(call.reads[1])
    /\ IsOk(call.result) /\ call.result.val = TRUE /\ mode = "JsonLines"

\* an execute_json_cmd call of a command other than the no-op that wrote its
\* command and read a line that does not deserialize into the type asked for
MalformedResponse ==
    /\ call.op = "execute_json_cmd"
    /\ call.arg[1] # "nop"
    /\ ~WriteFailed(call)
    /\ Len(call.reads) = 1 /\ ~ReadFailed(call)
    /\ ~StatusShaped(call.reads[1])

\* C10: for a command other than the no-op, a response line that does not
\* deserialize makes execute_json_cmd return a deserialization error, which
\* no transport failure produces, and leaves the recorded mode unchanged.
C10_DeserializeError ==
    /\ MalformedResponse =>
          /\ call.result = Err("DeserializeError")
          /\ mode = call.before
    /\ ( /\ call.op = "execute_json_cmd"
         /\ (WriteFailed(call) \/ ReadFailed(call)) ) =>
          /\ IsErr(call.result) /\ call.result.val # "DeserializeError"
          /\ mode = call.before

C10_Witness ==
    /\ MalformedResponse
    /\ call.arg = <<"sdatac", "Status">>
    /\ call.result = Err("DeserializeError")
    /\ call.before = "JsonLines" /\ mode = "JsonLines"

\* the frames blink_test(num) is to write: on, off, num times over
RECURSIVE BlinkPlan(_)
BlinkPlan(num) ==
    IF num = 0 THEN <<>>
    ELSE <<JsonFrame("boardledon"), JsonFrame("boardledoff")>> \o BlinkPlan(num - 1)

\* the frames the last operation is to write when nothing fails
Plan(c) ==
    CASE c.op = "ensure_mode" ->
           IF <<c.before, c.arg>> \in DOMAIN Table THEN Table[<<c.before, c.arg>>]
           ELSE <<>>
      [] c.op = "execute_json_cmd" -> <<JsonFrame(c.arg[1])>>
      [] c.op = "noop" -> <<JsonFrame("nop")>>
      [] c.op = "blink_test" -> BlinkPlan(c.arg)

\* C13: in ensure_mode, execute_json_cmd, noop and blink_test a transport
\* failure ends the call at the failing step with an error: what was written
\* is a prefix of the call's command sequence (nothing written twice), a
\* failed write is the last write and is followed by no read.
C13_AbortNoRetry ==
    call.op \in {"ensure_mode", "execute_json_cmd", "noop", "blink_test"} =>
        LET plan == Plan(call)
            n == Len(call.writes)
        IN  /\ n <= Len(plan)
            /\ \A i \in 1..n : call.writes[i].buf = plan[i]
            /\ \A i \in 1..n : ~call.writes[i].ok => i = n
            /\ WriteFailed(call) => (IsErr(call.result) /\ call.reads = <<>>)
            /\ Len(call.reads) <= 1
            /\ ReadFailed(call) => IsErr(call.result)

\* the second command of MsgPack -> Text failed: the call ended there
C13_Witness ==
    /\ EnsureCall
    /\ call.before = "MsgPack" /\ call.arg = "Text"
    /\ Len(call.writes) = 2 /\ call.writes[1].ok /\ ~call.writes[2].ok
    /\ IsErr(call.result) /\ call.reads = <<>>

\* the operations other than ensure_mode (and new, which calls it)
SharedOps ==
    {"jsonlines", "blink_test", "noop", "board_led_on", "board_led_off",
     "send_json_cmd", "send_text_cmd", "read_response", "execute_json_cmd"}

\* C14: jsonlines, blink_test, noop, board_led_on, board_led_off,
\* send_json_cmd, send_text_cmd, read_response and execute_json_cmd leave the
\* recorded mode as it was before the call, whatever they return.
C14_ModeFrame ==
    call.op \in SharedOps => mode = call.before

\* jsonlines() sent its command in Text mode and the record still says Text
C14_Witness ==
    /\ call.op = "jsonlines"
    /\ IsOk(call.result) /\ call.writes[1].sent = TextFrame("jsonlines")
    /\ call.before = "Text" /\ mode = "Text"

\* C16: once the recorded mode is Text, JsonLines or MsgPack, no operation
\* (successful, failed or fatal) makes it Unknown again.
C16_NeverUnknownAgain == [][mode # "Unknown" => mode' # "Unknown"]_vars

\* ensure_mode(Unknown) was called in a known mode: it failed, the mode stayed
C16_Witness ==
    /\ EnsureCall
    /\ call.arg = "Unknown" /\ call.before = "JsonLines"
    /\ call.result.kind = "Panic"
    /\ mode = "JsonLines"

\* C17: a send_text_cmd(name) that returns success has delivered the whole
\* frame name + LF, and a send_json_cmd(name) that returns success the whole
\* frame {"COMMAND": name, "PARAMETERS": []} + CR LF.
C17_WholeFrameDelivered ==
    /\ (call.op = "send_text_cmd" /\ IsOk(call.result)) =>
          call.writes[1].sent = TextFrame(call.arg)
    /\ (call.op = "send_json_cmd" /\ IsOk(call.result)) =>
          call.writes[1].sent = JsonFrame(call.arg)

\* a line that parses as the no-op response
GoodLine == [json |-> TRUE, fields |-> {"status_code", "status_text"}, nl |-> TRUE]

\* what ensure_mode(desired) would have handed to the transport from the
\* mode the last call started in, nothing failing
Alternative(desired) == ensure_mode(call.before, desired, AllFull, GoodLine).out

\* C20: for a fixed current mode, the command sequence ensure_mode writes
\* determines the target: no other desired mode gives a successful transition
\* writing the same sequence as the last successful transition.
C20_SequenceDeterminesTarget ==
    (EnsureCall /\ IsOk(call.result) /\ call.result.val = TRUE) =>
        \A d \in Mode \ {call.arg, call.before} :
            LET alt == Alternative(d) IN
            IsOk(alt.result) => Buffers(alt) # Buffers(call)

\* a wreg call that wrote its command and read a Status line
StatusRead ==
    /\ call.op = "wreg"
    /\ ~WriteFailed(call)
    /\ Len(call.reads) = 1 /\ call.reads[1] \in StatusLines

\* C15: a register write hands the device's status back unchanged whether or
\* not its code is a success; asserting a status with a non-success code
\* gives a command-status-failure error, asserting one with code 0 gives none.
C15_StatusAssert ==
    StatusRead =>
        LET line == call.reads[1]
            asserted == call.arg[1]
        IN  /\ ~asserted =>
                 call.result = Ok([status_code |-> line.status_code,
                                   status_text |-> line.status_text])
            /\ (asserted /\ line.status_code = 0) => IsOk(call.result)
            /\ (asserted /\ line.status_code # 0) =>
                 (IsErr(call.result) /\ call.result.val = "CommandStatusError")

\* Status{status_code: 1, status_text: "Error"} came back and was asserted
C15_Witness ==
    /\ StatusRead
    /\ call.arg[1] = TRUE
    /\ call.reads[1].status_code = 1 /\ call.reads[1].status_text = "Error"
    /\ IsErr(call.result) /\ call.result.val = "CommandStatusError"


\* a call that read a line from the transport
LineRead == call.reads # <<>> /\ call.reads[1] # IoErr

\* C11: over any sequence of calls the k-th successful read returns the k-th
\* line the device sent: nothing delivered after a line's newline is consumed
\* or discarded by the read that returned the line.
C11_KthReadKthLine ==
    LineRead => call.reads[1].id = wire.got

\* C12: between operations the recorded mode of a live session equals the
\* encoding the device is configured for.
C12_ModeMatchesDevice ==
    client = "live" => mode = wire.dev

\* C19: with a device that answers every JSON command it receives in
\* JsonLines with one line, the line execute_json_cmd(c) reads is the
\* response to c: the last line the device sent.
C19_OwnResponse ==
    (call.op = "execute_json_cmd" /\ wire.ans = 1 /\ LineRead)
        => call.reads[1].id = wire.sent


\* C18: read_response always eventually returns, with a line or with the
\* transport's timeout error; it does not keep blocking while the transport
\* keeps delivering bytes that contain no newline.
C18_ReadReturns ==
    (rl.pc = "reading") ~> (rl.pc = "idle")

====
